---- MODULE Spec2Model ----
(***************************************************************************)
(* A model of cmorph.py, the script that mirrors the CMORPH 8km-30min v1.0 *)
(* dataset: authenticate once, build the list of daily files for a year    *)
(* and a list of months, fetch every file that is missing or stale, check  *)
(* each transfer by size, and report the files updated, new and in error.  *)
(*                                                                         *)
(* Strings of the program are TLA+ strings, built with \o as the program   *)
(* builds them with f-strings.  The file system, the remote server and the *)
(* operator who starts (and possibly kills) the script are the environment.*)
(***************************************************************************)
EXTENDS Integers, Sequences, FiniteSets, TLC

VARIABLES
    pc,        \* where main is: "auth", "plan", "loop"; or how it ended: "done",
               \* "exited", "aborted", "killed"; or "stalled", waiting for ever
    args,      \* the parsed command line: [year, month, monthGiven]
    ret,       \* status code of the login response (0: no login POST yet)
    flist,     \* main's flist
    idx,       \* number of loop iterations of main that have finished
    updated,   \* main's updated
    new,       \* main's new
    error,     \* main's error
    calls,     \* the calls of download_file that ran to their end in this run, in order
    fs,        \* local files under data_dir: path -> [size, mtime]
    dirs,      \* local directories made under data_dir
    rlm,       \* remote Last-modified time of the files published again
    clock,     \* logical time
    posts,     \* login POSTs issued in this run
    gets,      \* file GETs issued in this run
    mdts,      \* calls of check_mdt in this run
    summary,   \* what print_summary was given in this run (<<>>: not called)
    run,       \* "first" or "repeat"
    start,     \* fs, dirs and rlm as they were when this run started
    faults,    \* soft faults so far: transfers of a wrong length, remote
               \* files published again
    stops      \* runs ended by an exception in the loop, a kill or a stall

vars == <<pc, args, ret, flist, idx, updated, new, error, calls, fs, dirs, rlm,
          clock, posts, gets, mdts, summary, run, start, faults, stops>>

---------------------------------------------------------------------------
(* Bounds                                                                  *)

\* month lists of the plan-only specification have at most MaxMonths tokens
MaxMonths == 2
\* a remote file has MaxLen bytes or is empty; a transfer leaves up to
\* MaxLen + 1 bytes on disk
MaxLen == 1
\* soft faults (transfers of a wrong length, remote files published again)
\* in one behaviour
MaxFaults == 1
\* runs of one behaviour that an exception in the loop, a kill or a stall
\* ends
MaxStops == 1

---------------------------------------------------------------------------
(* Strings and numbers                                                     *)

\* "%.2d" % i
Fmt2d(i) == IF i < 10 THEN "0" \o ToString(i) ELSE ToString(i)

\* A str of the program is held as its UTF-8 bytes, one character of the
\* TLA+ string per byte; Len is the length in bytes.

\* the byte i of s
char(s, i) == SubSeq(s, i, i)

\* the characters int() takes for white space: those of ASCII and of
\* Unicode 14.0
Whitespace ==
    {"\t", "\n", "", "\f", "\r", " ", "Â", "Â ",
     "á", "â", "â", "â", "â", "â", "â", "â",
     "â", "â", "â", "â", "â¨", "â©", "â¯", "â",
     "ã"}

\* the characters int() takes for the digits 0..9: the decimal digits of
\* Unicode 14.0, one row of ten for each script
DecimalDigits == <<
    <<"0", "1", "2", "3", "4", "5", "6", "7", "8", "9">>,
    <<"Ù ", "Ù¡", "Ù¢", "Ù£", "Ù¤", "Ù¥", "Ù¦", "Ù§", "Ù¨", "Ù©">>,
    <<"Û°", "Û±", "Û²", "Û³", "Û´", "Ûµ", "Û¶", "Û·", "Û¸", "Û¹">>,
    <<"ß", "ß", "ß", "ß", "ß", "ß", "ß", "ß", "ß", "ß">>,
    <<"à¥¦", "à¥§", "à¥¨", "à¥©", "à¥ª", "à¥«", "à¥¬", "à¥­", "à¥®", "à¥¯">>,
    <<"à§¦", "à§§", "à§¨", "à§©", "à§ª", "à§«", "à§¬", "à§­", "à§®", "à§¯">>,
    <<"à©¦", "à©§", "à©¨", "à©©", "à©ª", "à©«", "à©¬", "à©­", "à©®", "à©¯">>,
    <<"à«¦", "à«§", "à«¨", "à«©", "à«ª", "à««", "à«¬", "à«­", "à«®", "à«¯">>,
    <<"à­¦", "à­§", "à­¨", "à­©", "à­ª", "à­«", "à­¬", "à­­", "à­®", "à­¯">>,
    <<"à¯¦", "à¯§", "à¯¨", "à¯©", "à¯ª", "à¯«", "à¯¬", "à¯­", "à¯®", "à¯¯">>,
    <<"à±¦", "à±§", "à±¨", "à±©", "à±ª", "à±«", "à±¬", "à±­", "à±®", "à±¯">>,
    <<"à³¦", "à³§", "à³¨", "à³©", "à³ª", "à³«", "à³¬", "à³­", "à³®", "à³¯">>,
    <<"àµ¦", "àµ§", "àµ¨", "àµ©", "àµª", "àµ«", "àµ¬", "àµ­", "àµ®", "àµ¯">>,
    <<"à·¦", "à·§", "à·¨", "à·©", "à·ª", "à·«", "à·¬", "à·­", "à·®", "à·¯">>,
    <<"à¹", "à¹", "à¹", "à¹", "à¹", "à¹", "à¹", "à¹", "à¹", "à¹">>,
    <<"à»", "à»", "à»", "à»", "à»", "à»", "à»", "à»", "à»", "à»">>,
    <<"à¼ ", "à¼¡", "à¼¢", "à¼£", "à¼¤", "à¼¥", "à¼¦", "à¼§", "à¼¨", "à¼©">>,
    <<"á", "á", "á", "á", "á", "á", "á", "á", "á", "á">>,
    <<"á", "á", "á", "á", "á", "á", "á", "á", "á", "á">>,
    <<"á ", "á¡", "á¢", "á£", "á¤", "á¥", "á¦", "á§", "á¨", "á©">>,
    <<"á ", "á ", "á ", "á ", "á ", "á ", "á ", "á ", "á ", "á ">>,
    <<"á¥", "á¥", "á¥", "á¥", "á¥", "á¥", "á¥", "á¥", "á¥", "á¥">>,
    <<"á§", "á§", "á§", "á§", "á§", "á§", "á§", "á§", "á§", "á§">>,
    <<"áª", "áª", "áª", "áª", "áª", "áª", "áª", "áª", "áª", "áª">>,
    <<"áª", "áª", "áª", "áª", "áª", "áª", "áª", "áª", "áª", "áª">>,
    <<"á­", "á­", "á­", "á­", "á­", "á­", "á­", "á­", "á­", "á­">>,
    <<"á®°", "á®±", "á®²", "á®³", "á®´", "á®µ", "á®¶", "á®·", "á®¸", "á®¹">>,
    <<"á±", "á±", "á±", "á±", "á±", "á±", "á±", "á±", "á±", "á±">>,
    <<"á±", "á±", "á±", "á±", "á±", "á±", "á±", "á±", "á±", "á±">>,
    <<"ê ", "ê¡", "ê¢", "ê£", "ê¤", "ê¥", "ê¦", "ê§", "ê¨", "ê©">>,
    <<"ê£", "ê£", "ê£", "ê£", "ê£", "ê£", "ê£", "ê£", "ê£", "ê£">>,
    <<"ê¤", "ê¤", "ê¤", "ê¤", "ê¤", "ê¤", "ê¤", "ê¤", "ê¤", "ê¤">>,
    <<"ê§", "ê§", "ê§", "ê§", "ê§", "ê§", "ê§", "ê§", "ê§", "ê§">>,
    <<"ê§°", "ê§±", "ê§²", "ê§³", "ê§´", "ê§µ", "ê§¶", "ê§·", "ê§¸", "ê§¹">>,
    <<"ê©", "ê©", "ê©", "ê©", "ê©", "ê©", "ê©", "ê©", "ê©", "ê©">>,
    <<"ê¯°", "ê¯±", "ê¯²", "ê¯³", "ê¯´", "ê¯µ", "ê¯¶", "ê¯·", "ê¯¸", "ê¯¹">>,
    <<"ï¼", "ï¼", "ï¼", "ï¼", "ï¼", "ï¼", "ï¼", "ï¼", "ï¼", "ï¼">>,
    <<"ð ", "ð¡", "ð¢", "ð£", "ð¤", "ð¥", "ð¦", "ð§", "ð¨", "ð©">>,
    <<"ð´°", "ð´±", "ð´²", "ð´³", "ð´´", "ð´µ", "ð´¶", "ð´·", "ð´¸", "ð´¹">>,
    <<"ð¦", "ð§", "ð¨", "ð©", "ðª", "ð«", "ð¬", "ð­", "ð®", "ð¯">>,
    <<"ð°", "ð±", "ð²", "ð³", "ð´", "ðµ", "ð¶", "ð·", "ð¸", "ð¹">>,
    <<"ð¶", "ð·", "ð¸", "ð¹", "ðº", "ð»", "ð¼", "ð½", "ð¾", "ð¿">>,
    <<"ð", "ð", "ð", "ð", "ð", "ð", "ð", "ð", "ð", "ð">>,
    <<"ð°", "ð±", "ð²", "ð³", "ð´", "ðµ", "ð¶", "ð·", "ð¸", "ð¹">>,
    <<"ð", "ð", "ð", "ð", "ð", "ð", "ð", "ð", "ð", "ð">>,
    <<"ð", "ð", "ð", "ð", "ð", "ð", "ð", "ð", "ð", "ð">>,
    <<"ð", "ð", "ð", "ð", "ð", "ð", "ð", "ð", "ð", "ð">>,
    <<"ð", "ð", "ð", "ð", "ð", "ð", "ð", "ð", "ð", "ð">>,
    <<"ð°", "ð±", "ð²", "ð³", "ð´", "ðµ", "ð¶", "ð·", "ð¸", "ð¹">>,
    <<"ð£ ", "ð£¡", "ð£¢", "ð££", "ð£¤", "ð£¥", "ð£¦", "ð£§", "ð£¨", "ð£©">>,
    <<"ð¥", "ð¥", "ð¥", "ð¥", "ð¥", "ð¥", "ð¥", "ð¥", "ð¥", "ð¥">>,
    <<"ð±", "ð±", "ð±", "ð±", "ð±", "ð±", "ð±", "ð±", "ð±", "ð±">>,
    <<"ðµ", "ðµ", "ðµ", "ðµ", "ðµ", "ðµ", "ðµ", "ðµ", "ðµ", "ðµ">>,
    <<"ð¶ ", "ð¶¡", "ð¶¢", "ð¶£", "ð¶¤", "ð¶¥", "ð¶¦", "ð¶§", "ð¶¨", "ð¶©">>,
    <<"ð© ", "ð©¡", "ð©¢", "ð©£", "ð©¤", "ð©¥", "ð©¦", "ð©§", "ð©¨", "ð©©">>,
    <<"ð«", "ð«", "ð«", "ð«", "ð«", "ð«", "ð«", "ð«", "ð«", "ð«">>,
    <<"ð­", "ð­", "ð­", "ð­", "ð­", "ð­", "ð­", "ð­", "ð­", "ð­">>,
    <<"ð", "ð", "ð", "ð", "ð", "ð", "ð", "ð", "ð", "ð">>,
    <<"ð", "ð", "ð", "ð", "ð", "ð", "ð", "ð", "ð ", "ð¡">>,
    <<"ð¢", "ð£", "ð¤", "ð¥", "ð¦", "ð§", "ð¨", "ð©", "ðª", "ð«">>,
    <<"ð¬", "ð­", "ð®", "ð¯", "ð°", "ð±", "ð²", "ð³", "ð´", "ðµ">>,
    <<"ð¶", "ð·", "ð¸", "ð¹", "ðº", "ð»", "ð¼", "ð½", "ð¾", "ð¿">>,
    <<"ð", "ð", "ð", "ð", "ð", "ð", "ð", "ð", "ð", "ð">>,
    <<"ð°", "ð±", "ð²", "ð³", "ð´", "ðµ", "ð¶", "ð·", "ð¸", "ð¹">>,
    <<"ð¥", "ð¥", "ð¥", "ð¥", "ð¥", "ð¥", "ð¥", "ð¥", "ð¥", "ð¥">>,
    <<"ð¯°", "ð¯±", "ð¯²", "ð¯³", "ð¯´", "ð¯µ", "ð¯¶", "ð¯·", "ð¯¸", "ð¯¹">>>>

DigitChars == DecimalDigits[1]

\* the digit a character stands for
RECURSIVE DecimalValuesFrom(_)
DecimalValuesFrom(r) ==
    LET row == [c \in {DecimalDigits[r][d] : d \in 1..10} |->
                   (CHOOSE d \in 1..10 : DecimalDigits[r][d] = c) - 1]
    IN  IF r = Len(DecimalDigits) THEN row ELSE row @@ DecimalValuesFrom(r + 1)
DecimalValue == DecimalValuesFrom(1)
SpaceOrDecimal == Whitespace \cup DOMAIN DecimalValue

\* the least and the greatest of a set of numbers
Min(S) == CHOOSE x \in S : \A y \in S : x <= y
Max(S) == CHOOSE x \in S : \A y \in S : x >= y

\* the length in bytes of the character that starts at byte i of s, when
\* int() takes it for white space or a digit; 0 otherwise
KnownAt(s, i) ==
    LET ks == {k \in 1..4 : /\ i + k - 1 <= Len(s)
                            /\ SubSeq(s, i, i + k - 1) \in SpaceOrDecimal}
    IN  IF ks = {} THEN 0 ELSE CHOOSE k \in ks : TRUE

\* byte i of s is a later byte of such a character
InsideKnown(s, i) == \E j \in 1..3 : i - j >= 1 /\ KnownAt(s, i - j) > j

\* what int() first makes of a str: white space becomes ' ', a decimal
\* digit its ASCII digit; any other character stays, and is refused below
\* (int() puts '?' for one that is not ASCII and stops there)
TransformAt(s, i) ==
    IF InsideKnown(s, i) THEN ""
    ELSE IF KnownAt(s, i) = 0 THEN char(s, i)
    ELSE LET c == SubSeq(s, i, i + KnownAt(s, i) - 1)
         IN  IF c \in Whitespace THEN " " ELSE DigitChars[DecimalValue[c] + 1]
RECURSIVE TransformIn(_, _, _)
TransformIn(s, lo, hi) ==
    IF lo > hi THEN ""
    ELSE IF lo = hi THEN TransformAt(s, lo)
    ELSE LET mid == (lo + hi) \div 2
         IN  TransformIn(s, lo, mid) \o TransformIn(s, mid + 1, hi)
Transform(s) == TransformIn(s, 1, Len(s))

\* the literal without the white space around it
Trim(t) ==
    LET solid == {i \in 1..Len(t) : char(t, i) # " "}
    IN  IF solid = {} THEN "" ELSE SubSeq(t, Min(solid), Max(solid))
strip(s) == Trim(Transform(s))

IsDigit(c) == \E d \in 1..10 : DigitChars[d] = c
DigitValue(c) == (CHOOSE d \in 1..10 : DigitChars[d] = c) - 1

\* the sign and the rest of a stripped literal
Minus(t) == Len(t) > 0 /\ char(t, 1) = "-"
Unsign(t) ==
    IF Len(t) > 0 /\ char(t, 1) \in {"+", "-"} THEN SubSeq(t, 2, Len(t)) ELSE t
Negative(s) == Minus(strip(s))
Unsigned(s) == Unsign(strip(s))

\* decimal digits, with single underscores between digits
WellFormed(u) ==
    /\ Len(u) > 0
    /\ \A i \in 1..Len(u) :
         \/ IsDigit(char(u, i))
         \/ /\ char(u, i) = "_"
            /\ i > 1 /\ i < Len(u)
            /\ IsDigit(char(u, i - 1)) /\ IsDigit(char(u, i + 1))

\* the digits of u between lo and hi, underscores left out
RECURSIVE DigitsIn(_, _, _)
DigitsIn(u, lo, hi) ==
    IF lo > hi THEN <<>>
    ELSE IF lo = hi
    THEN (IF IsDigit(char(u, lo)) THEN <<DigitValue(char(u, lo))>> ELSE <<>>)
    ELSE LET mid == (lo + hi) \div 2
         IN  DigitsIn(u, lo, mid) \o DigitsIn(u, mid + 1, hi)
DigitsOf(u) == DigitsIn(u, 1, Len(u))

\* sys.int_info.default_max_str_digits: int() refuses longer literals
MaxStrDigits == 4300

\* int(s) returns: a string that is no integer literal, or has too many
\* digits, makes it raise ValueError
Literal(u) == WellFormed(u) /\ Len(DigitsOf(u)) <= MaxStrDigits
IsInt(s) == Literal(Unsigned(s))

\* digits without their leading zeros
Significant(ds) ==
    LET nonzero == {i \in 1..Len(ds) : ds[i] # 0}
    IN  IF nonzero = {} THEN <<0>> ELSE SubSeq(ds, Min(nonzero), Len(ds))

\* int(s).  A Python integer has no bound: it is held in decimal, as its
\* sign and its digits without leading zeros.
PyInt(neg, ds) == [neg |-> neg /\ ds # <<0>>, digits |-> ds]
int(s) == PyInt(Negative(s), Significant(DigitsOf(Unsigned(s))))

\* a Python integer of few digits, as a number
RECURSIVE ValueOf(_, _)
ValueOf(ds, n) == IF n = 0 THEN 0 ELSE ValueOf(ds, n - 1) * 10 + ds[n]
Number(n) ==
    IF n.neg THEN 0 - ValueOf(n.digits, Len(n.digits))
    ELSE ValueOf(n.digits, Len(n.digits))

\* n % m for a Python integer n and a number m > 0
RECURSIVE Pow10Mod(_, _)
Square(h) == h * h
Pow10Mod(e, m) ==
    IF e = 0 THEN 1 % m
    ELSE (Square(Pow10Mod(e \div 2, m)) * (IF e % 2 = 1 THEN 10 ELSE 1)) % m
RECURSIVE Residue(_, _, _, _)
Residue(ds, lo, hi, m) ==
    IF lo > hi THEN 0
    ELSE IF lo = hi THEN ds[lo] % m
    ELSE LET mid == (lo + hi) \div 2
         IN  (Residue(ds, lo, mid, m) * Pow10Mod(hi - mid, m)
                 + Residue(ds, mid + 1, hi, m)) % m
FloorMod(neg, r, m) == IF neg /\ r # 0 THEN m - r ELSE r
Mod(n, m) == FloorMod(n.neg, Residue(n.digits, 1, Len(n.digits), m), m)

\* calendar.isleap
isleap_no400(year) == Mod(year, 4) = 0 /\ Mod(year, 100) # 0
isleap(year) ==
    Mod(year, 4) = 0 /\ (Mod(year, 100) # 0 \/ Mod(year, 400) = 0)

\* calendar.mdays
mdays == <<31, 28, 31, 30, 31, 30, 31, 31, 30, 31, 30, 31>>

\* calendar.monthrange(year, month)[1]; IllegalMonthError outside 1..12.
\* The year is not checked: weekday() folds a year outside 1..9999 into
\* 2000 + year % 400 before it builds a date.
MonthOk(month) ==
    ~month.neg /\ Len(month.digits) <= 2 /\ Number(month) \in 1..12
monthrange(year, month) ==
    mdays[Number(month)] + (IF Number(month) = 2 /\ isleap(year) THEN 1 ELSE 0)

\* allmns = ["%.2d" % i for i in range(1,13)]
allmns == [i \in 1..12 |-> Fmt2d(i)]

---------------------------------------------------------------------------
(* get_filelist                                                            *)

\* fpath = f'v1.0/30min/8km/{yr}/{mn}/'
MonthDir(yr, mn) == "v1.0/30min/8km/" \o yr \o "/" \o mn \o "/"

\* data_dir = f"{root_dir}/cmorph/data", root_dir being the default of
\* os.getenv("AUSREFDIR", ..)
data_dir == "/g/data/ia39/aus-ref-clim-data-nci/cmorph/data"

\* the limits of Linux on the bytes of a file name and of a path (the
\* path with its final NUL)
NameMax == 255
PathMax == 4096

\* the names of a path, the runs of bytes between the '/', each with the
\* position where it ends and the length of the path that mkdir is given
\* for it: os.makedirs splits the '/' off the paths of the parents it
\* makes, and gives the whole path, with the '/' that end it, to the mkdir
\* of its last name
NameStartsAt(path, i) ==
    char(path, i) # "/" /\ (i = 1 \/ char(path, i - 1) = "/")
NameEnd(path, i) ==
    Min({j \in i..Len(path) : j = Len(path) \/ char(path, j + 1) = "/"})
IsLastName(path, end) == \A k \in (end + 1)..Len(path) : char(path, k) = "/"
MkdirLen(path, end) == IF IsLastName(path, end) THEN Len(path) ELSE end
RECURSIVE NamesIn(_, _, _)
NamesIn(path, lo, hi) ==
    IF lo > hi THEN <<>>
    ELSE IF lo = hi
    THEN (IF NameStartsAt(path, lo)
          THEN <<[name |-> SubSeq(path, lo, NameEnd(path, lo)),
                  upto |-> MkdirLen(path, NameEnd(path, lo))]>>
          ELSE <<>>)
    ELSE LET mid == (lo + hi) \div 2
         IN  NamesIn(path, lo, mid) \o NamesIn(path, mid + 1, hi)
Names(path) == NamesIn(path, 1, Len(path))

\* the way the names lo..hi lead: ups directories up ('..'), then down the
\* directories down ('.' stays where it is)
Then(a, b) ==
    IF b.ups <= Len(a.down)
    THEN [ups  |-> a.ups,
          down |-> SubSeq(a.down, 1, Len(a.down) - b.ups) \o b.down]
    ELSE [ups |-> a.ups + b.ups - Len(a.down), down |-> b.down]
RECURSIVE Walk(_, _, _)
Walk(names, lo, hi) ==
    IF lo > hi THEN [ups |-> 0, down |-> <<>>]
    ELSE IF lo = hi
    THEN (IF names[lo].name = "." THEN [ups |-> 0, down |-> <<>>]
          ELSE IF names[lo].name = ".." THEN [ups |-> 1, down |-> <<>>]
          ELSE [ups |-> 0, down |-> <<names[lo].name>>])
    ELSE Then(Walk(names, lo, (lo + hi) \div 2),
              Walk(names, (lo + hi) \div 2 + 1, hi))

\* a directory, by the names that lead to it from data_dir
RECURSIVE JoinedIn(_, _, _)
JoinedIn(names, lo, hi) ==
    IF lo > hi THEN ""
    ELSE IF lo = hi THEN names[lo]
    ELSE LET mid == (lo + hi) \div 2
         IN  JoinedIn(names, lo, mid) \o "/" \o JoinedIn(names, mid + 1, hi)
Joined(at) == JoinedIn(at, 1, Len(at))
Stands(w) == [i \in 1..w.ups |-> ".."] \o w.down
DirAfter(names, j) == Joined(Stands(Walk(names, 1, j)))

\* mkdir of the path up to the j-th name raises OSError: the name or the
\* path is too long ('.' is not made)
TooLong(names, j) ==
    /\ names[j].name # "."
    /\ \/ Len(names[j].name) > NameMax
       \/ Len(data_dir) + 1 + names[j].upto >= PathMax

\* the directories made for the names lo..hi
RECURSIVE MadeIn(_, _, _)
MadeIn(names, lo, hi) ==
    IF lo > hi THEN <<>>
    ELSE IF lo = hi
    THEN (IF names[lo].name \in {".", ".."} THEN <<>> ELSE <<DirAfter(names, lo)>>)
    ELSE LET mid == (lo + hi) \div 2
         IN  MadeIn(names, lo, mid) \o MadeIn(names, mid + 1, hi)

\* os.makedirs(f"{data_dir}/{fpath}", exist_ok=True): the directories of
\* the path are made one after the other, from data_dir down; a name or a
\* path that is too long makes mkdir raise OSError, after the directories
\* above it were made.  made is the list of the directories made so far.
FirstTooLong(names) ==
    LET bad == {j \in 1..Len(names) : TooLong(names, j)}
    IN  IF bad = {} THEN 0 ELSE Min(bad)
MakeUntil(names, stop, made) ==
    [made   |-> made \o MadeIn(names, 1, IF stop = 0 THEN Len(names) ELSE stop - 1),
     raised |-> stop # 0]
MakeAll(names, made) == MakeUntil(names, FirstTooLong(names), made)
makedirs(fpath, made) == MakeAll(Names(fpath), made)

\* fname = f'CMORPH_V1.0_ADJ_8km-30min_{yr}{mn}DD00.nc', kept as the text
\* before and after the one 'DD' (the fixed text holds no other 'DD', and a
\* yr or mn that holds a 'D' makes int() raise before fname is used)
FileName(yr, mn) ==
    [pre |-> "CMORPH_V1.0_ADJ_8km-30min_" \o yr \o mn, post |-> "00.nc"]

\* fname.replace('DD', x)
ReplaceDD(fname, x) == fname.pre \o x \o fname.post

\* days = ["%.2d" % i for i in range(1,lastday+1)]
DaysTo(lastday) == [i \in 1..lastday |-> Fmt2d(i)]

\* fmonth = [fpath+fname.replace('DD', x) for x in days]
FilesOf(fpath, fname, days) ==
    [i \in 1..Len(days) |-> fpath \o ReplaceDD(fname, days[i])]
fmonth(yr, mn) ==
    FilesOf(MonthDir(yr, mn), FileName(yr, mn),
            DaysTo(monthrange(int(yr), int(mn))))

\* line 126 raises: int() fails (ValueError) or monthrange rejects the
\* month (IllegalMonthError)
MonthRaises(yr, mn) == ~IsInt(yr) \/ ~IsInt(mn) \/ ~MonthOk(int(mn))

\* get_filelist(yr, mns, data_dir): the list built, the directories made,
\* in the order they were made, and whether an exception ended the loop
\* (no list is returned then).
\* os.makedirs comes before monthrange, so the directory of a rejected
\* month exists.
RECURSIVE get_filelist_from(_, _, _, _, _)
get_filelist_month(yr, mns, j, acc, d) ==
    IF d.raised \/ MonthRaises(yr, mns[j])
    THEN [flist |-> <<>>, made |-> d.made, raised |-> TRUE]
    ELSE get_filelist_from(yr, mns, j + 1, acc \o fmonth(yr, mns[j]), d.made)
get_filelist_from(yr, mns, j, acc, made) ==
    IF j > Len(mns) THEN [flist |-> acc, made |-> made, raised |-> FALSE]
    ELSE get_filelist_month(yr, mns, j, acc,
                            makedirs(MonthDir(yr, mns[j]), made))

get_filelist(yr, mns) == get_filelist_from(yr, mns, 1, <<>>, <<>>)

\* main: mns = args['month']; if mns is None: mns = allmns
MonthsOf(a) == IF a.monthGiven THEN a.month ELSE allmns

---------------------------------------------------------------------------
(* check_file_status, check_mdt, download_file                             *)

\* percent_complete == 100, with percent_complete = (size/filesize)*100 in
\* double precision.  size/filesize is the quotient rounded to the nearest
\* double, and of all doubles only 1.0 gives 100.0 when multiplied by 100;
\* the quotient rounds to 1.0 when it lies between 1 - 2^-54 and 1 + 2^-53,
\* which sizes from 2^53 on do without being equal.  (x \div 2^27) \div 2^27
\* is x \div 2^54.
PercentIs100(size, filesize) ==
    \/ size = filesize
    \/ /\ size < filesize
       /\ ((filesize \div (filesize - size)) \div 2^27) \div 2^27 >= 1
    \/ /\ size > filesize
       /\ ((filesize \div (size - filesize)) \div 2^27) \div 2^26 >= 1

\* check_file_status(filepath, filesize), size = os.stat(filepath).st_size;
\* size/filesize raises ZeroDivisionError when filesize = 0
check_file_status(size, filesize) ==
    IF filesize = 0 THEN "ZeroDivisionError"
    ELSE IF PercentIs100(size, filesize) THEN "complete"
    ELSE "incomplete"

\* util.check_mdt(req, file_base, data_log): TRUE when the remote file is
\* not newer than the local copy
check_mdt(remoteModDate, localModDate) == remoteModDate <= localModDate

\* the Last-modified header of a remote file; 0 until it is published again
RemoteLM(times, fpath) == IF fpath \in DOMAIN times THEN times[fpath] ELSE 0

\* open(file_base, 'wb'), the chunks written and the file closed: size bytes
\* on disk, modified now
Written(files, fpath, size, now) ==
    [p \in DOMAIN files \cup {fpath} |->
        IF p = fpath THEN [size |-> size, mtime |-> now] ELSE files[p]]

\* download_file(ret, filename, file_base, update, data_log) for a response
\* that declares filesize bytes and carries the Last-modified time remoteLM,
\* and a stream that leaves streamed bytes on disk.  The progress calls of
\* check_file_status inside the loop run only when filesize exceeds one
\* chunk (so filesize > 0) and only print.
download_file_always(files, fpath, update, remoteLM, filesize, streamed, now) ==
    [status |-> check_file_status(streamed, filesize),
     files  |-> Written(files, fpath, streamed, now),
     opened |-> TRUE,
     mdt    |-> update]
download_file_open_first(files, fpath, update, remoteLM, filesize, streamed, now) ==
    IF update /\ check_mdt(remoteLM, files[fpath].mtime)
    THEN [status |-> "skip", files |-> Written(files, fpath, 0, now),
          opened |-> FALSE, mdt |-> TRUE]
    ELSE [status |-> check_file_status(streamed, filesize),
          files  |-> Written(files, fpath, streamed, now),
          opened |-> TRUE,
          mdt    |-> update]
download_file_check_first(files, fpath, update, remoteLM, filesize, streamed, now) ==
    IF fpath \in DOMAIN files /\ check_mdt(remoteLM, files[fpath].mtime)
    THEN [status |-> "skip", files |-> files, opened |-> FALSE, mdt |-> TRUE]
    ELSE [status |-> check_file_status(streamed, filesize),
          files  |-> Written(files, fpath, streamed, now),
          opened |-> TRUE,
          mdt    |-> TRUE]
download_file_by_size(files, fpath, update, remoteLM, filesize, streamed, now) ==
    IF update /\ check_mdt(remoteLM, files[fpath].mtime)
              /\ files[fpath].size = filesize
    THEN [status |-> "skip", files |-> files, opened |-> FALSE, mdt |-> TRUE]
    ELSE [status |-> check_file_status(streamed, filesize),
          files  |-> Written(files, fpath, streamed, now),
          opened |-> TRUE,
          mdt    |-> update]
download_file(files, fpath, update, remoteLM, filesize, streamed, now) ==
    IF update /\ check_mdt(remoteLM, files[fpath].mtime)
    THEN [status |-> "skip", files |-> files, opened |-> FALSE, mdt |-> TRUE]
    ELSE [status |-> check_file_status(streamed, filesize),
          files  |-> Written(files, fpath, streamed, now),
          opened |-> TRUE,
          mdt    |-> update]

---------------------------------------------------------------------------
(* main                                                                    *)

\* authenticate: exit(1) unless the login returned 200
AfterLogin_lenient(status) == "plan"
AfterLogin(status) == IF status # 200 THEN "exited" ELSE "plan"

\* exists = os.path.exists(file_base); update = True if exists else False
UpdateMode(exists) == IF exists THEN TRUE ELSE FALSE

\* the status filed: complete under updated or new, incomplete under error
FileStatus_both(lists, status, update, fpath) ==
    [updated |-> IF status = "complete" /\ update
                 THEN Append(lists.updated, fpath) ELSE lists.updated,
     new     |-> IF status = "complete"
                 THEN Append(lists.new, fpath) ELSE lists.new,
     error   |-> IF status = "incomplete"
                 THEN Append(lists.error, fpath) ELSE lists.error]
FileStatus_swapped(lists, status, update, fpath) ==
    [updated |-> IF status = "complete" /\ ~update
                 THEN Append(lists.updated, fpath) ELSE lists.updated,
     new     |-> IF status = "complete" /\ update
                 THEN Append(lists.new, fpath) ELSE lists.new,
     error   |-> IF status = "incomplete"
                 THEN Append(lists.error, fpath) ELSE lists.error]
FileStatus(lists, status, update, fpath) ==
    [updated |-> IF status = "complete" /\ update
                 THEN Append(lists.updated, fpath) ELSE lists.updated,
     new     |-> IF status = "complete" /\ ~update
                 THEN Append(lists.new, fpath) ELSE lists.new,
     error   |-> IF status = "incomplete"
                 THEN Append(lists.error, fpath) ELSE lists.error]

\* for fpath in flist: the iterations finished after one more
NextIndex_retry(i, status) == IF status = "incomplete" THEN i ELSE i + 1
NextIndex(i, status) == i + 1

NoFiles == [p \in {} |-> [size |-> 0, mtime |-> 0]]
NoTimes == [p \in {} |-> 0]

\* the status codes the login endpoint answers with
LoginStatuses == {200, 403, 500}

\* command lines of the runs that may be repeated
RunMonthLists == {<<>>, <<"02">>}
RunArgs == {[year |-> "2022", month |-> m, monthGiven |-> TRUE] : m \in RunMonthLists}

\* the single runs: the months of the command line, and the months an
\* earlier run mirrored
OnceStarts == {[month |-> <<"02">>,       mirrored |-> <<>>],
               [month |-> <<"02", "02">>, mirrored |-> <<>>],
               [month |-> <<"02", "04">>, mirrored |-> <<"02">>]}

\* command lines of the plan-only specification (the last month is 02 in
\* full-width digits)
PlanYears  == {"1900", "2000", "2100", "2101", " 2024", "1_900",
               "12345678900", "20x2"}
PlanMonths == {allmns[i] : i \in 1..12}
                  \cup {"13", "2", " 02", "1_1", "ï¼ï¼"}
PlanArgs ==
    {[year |-> y, month |-> m, monthGiven |-> TRUE] :
        y \in PlanYears, m \in UNION {[1..k -> PlanMonths] : k \in 0..MaxMonths}}
    \cup {[year |-> y, month |-> <<>>, monthGiven |-> FALSE] : y \in PlanYears}

Range(seq) == {seq[i] : i \in 1..Len(seq)}

\* what an earlier run of the script with the months mns, every transfer
\* complete, left under data_dir
Mirrored(r) ==
    [fs   |-> [p \in Range(r.flist) |-> [size |-> MaxLen, mtime |-> 0]],
     dirs |-> Range(r.made)]
MirrorOf(yr, mns) == Mirrored(get_filelist(yr, mns))

\* a process started: nothing posted, fetched or filed yet
Started ==
    /\ pc = "auth"
    /\ ret = 0
    /\ flist = <<>>
    /\ idx = 0
    /\ updated = <<>>
    /\ new = <<>>
    /\ error = <<>>
    /\ calls = <<>>
    /\ posts = 0
    /\ gets = 0
    /\ mdts = 0
    /\ summary = <<>>

Init ==
    /\ Started
    /\ args \in RunArgs
    /\ fs = NoFiles
    /\ dirs = {}
    /\ rlm = NoTimes
    /\ clock = 1
    /\ run = "first"
    /\ start = [fs |-> NoFiles, dirs |-> {}, rlm |-> NoTimes]
    /\ faults = 0
    /\ stops = 0

\* authenticate(username, data_log): os.environ['RDAPSWD'] raises KeyError
\* before anything is sent, or requests.post raises, or the POST is
\* answered; exit(1) unless the answer is 200
Authenticate ==
    /\ pc = "auth"
    /\ \/ /\ pc' = "aborted"
          /\ UNCHANGED <<ret, posts>>
       \/ /\ pc' = "aborted"
          /\ posts' = posts + 1
          /\ ret' = ret
       \/ /\ \E status \in LoginStatuses :
               /\ ret' = status
               /\ pc' = AfterLogin(status)
          /\ posts' = posts + 1
    /\ UNCHANGED <<args, flist, idx, updated, new, error, calls, fs, dirs,
                   rlm, clock, gets, mdts, summary, run, start, faults, stops>>

\* flist = get_filelist(yr, mns, data_dir); updated = []; new = []; error = []
BuildPlan ==
    /\ pc = "plan"
    /\ \E r \in {get_filelist(args.year, MonthsOf(args))} :
           /\ dirs' = dirs \cup Range(r.made)
           /\ flist' = IF r.raised THEN flist ELSE r.flist
           /\ pc' = IF r.raised THEN "aborted" ELSE "loop"
    /\ updated' = <<>>
    /\ new' = <<>>
    /\ error' = <<>>
    /\ UNCHANGED <<args, ret, idx, calls, fs, rlm, clock, posts, gets, mdts,
                   summary, run, start, faults, stops>>

\* the target of the loop iteration in progress
Current == flist[idx + 1]
InLoop == pc = "loop" /\ idx < Len(flist)

\* a transfer is fault-free when the response declares the MaxLen bytes of
\* the remote file and the stream delivers them
Clean(filesize, streamed) == filesize = MaxLen /\ streamed = MaxLen

\* one iteration of main's loop: exists, update, download_file, and the
\* status filed under updated, new or error
Iterate(filesize, streamed) ==
    /\ InLoop
    /\ LET fpath  == Current
           exists == fpath \in DOMAIN fs
           update == UpdateMode(exists)
           r      == download_file(fs, fpath, update, RemoteLM(rlm, fpath),
                                   filesize, streamed, clock)
           lists  == FileStatus([updated |-> updated, new |-> new, error |-> error],
                                r.status, update, fpath)
       IN  /\ IF Clean(filesize, streamed) THEN faults' = faults
              ELSE /\ r.opened
                   /\ faults < MaxFaults
                   /\ faults' = faults + 1
           /\ gets' = gets + 1
           /\ mdts' = mdts + (IF r.mdt THEN 1 ELSE 0)
           /\ fs' = r.files
           /\ calls' = Append(calls,
                   [fpath |-> fpath, update |-> update, existed |-> exists,
                    filesize |-> filesize,
                    size |-> IF r.opened THEN streamed ELSE fs[fpath].size,
                    status |-> r.status, opened |-> r.opened, mdt |-> r.mdt])
           /\ IF r.status = "ZeroDivisionError"
              THEN /\ pc' = "aborted"
                   /\ UNCHANGED <<idx, updated, new, error>>
              ELSE /\ pc' = pc
                   /\ idx' = NextIndex(idx, r.status)
                   /\ updated' = lists.updated
                   /\ new' = lists.new
                   /\ error' = lists.error
    /\ UNCHANGED <<args, ret, flist, dirs, rlm, clock, posts, summary, run,
                   start, stops>>

\* Where an iteration of the loop can be left, and what has happened by
\* then:
\*   "loop"   lines 170-177: requests.get not yet called
\*   "get"    lines 103-104: the GET issued
\*   "check"  lines 105-109, update mode: check_mdt called, the file not
\*            opened (on the way to 'skip' or to open)
\*   "body"   lines 109-115: the file opened, written bytes on disk
Points == {"loop", "get", "check", "body"}

\* main leaves the loop at point, with written bytes of the body on disk,
\* and ends as end
Interrupted(point, written, end) ==
    /\ pc = "loop"
    /\ point # "loop" => InLoop
    /\ stops < MaxStops
    /\ LET fpath  == Current
           update == UpdateMode(fpath \in DOMAIN fs)
           skip   == update /\ check_mdt(RemoteLM(rlm, fpath), fs[fpath].mtime)
       IN  /\ point = "check" => update
           /\ point = "body" => ~skip
           /\ gets' = gets + (IF point = "loop" THEN 0 ELSE 1)
           /\ mdts' = mdts + (IF point \in {"check", "body"} /\ update THEN 1 ELSE 0)
           /\ fs' = IF point = "body" THEN Written(fs, fpath, written, clock) ELSE fs
    /\ stops' = stops + 1
    /\ pc' = end
    /\ UNCHANGED <<args, ret, flist, idx, updated, new, error, calls, dirs,
                   rlm, clock, posts, summary, run, start, faults>>

\* requests.get raises (no connection), the response has no usable
\* Content-length, or check_mdt or open raises: the exception is not caught
GetRaises ==
    \E point \in {"get", "check"} : Interrupted(point, 0, "aborted")

\* iter_content raises while the body is streamed: the with block closes
\* the file with the bytes written so far, under its final name, and the
\* exception is not caught
StreamRaises ==
    \E written \in 0..(MaxLen + 1) : Interrupted("body", written, "aborted")

\* the process is killed: in authenticate, before or after the POST was
\* sent; in get_filelist, with some of the directories made; or in the
\* loop, at any point of an iteration
Killed ==
    \/ /\ pc = "auth"
       /\ stops < MaxStops
       /\ stops' = stops + 1
       /\ \E sent \in {0, 1} : posts' = posts + sent
       /\ pc' = "killed"
       /\ UNCHANGED <<args, ret, flist, idx, updated, new, error, calls, fs,
                      dirs, rlm, clock, gets, mdts, summary, run, start,
                      faults>>
    \/ /\ pc = "plan"
       /\ stops < MaxStops
       /\ stops' = stops + 1
       /\ \E made \in {get_filelist(args.year, MonthsOf(args)).made} :
            \E k \in 0..Len(made) : dirs' = dirs \cup Range(SubSeq(made, 1, k))
       /\ pc' = "killed"
       /\ UNCHANGED <<args, ret, flist, idx, updated, new, error, calls, fs,
                      rlm, clock, posts, gets, mdts, summary, run, start,
                      faults>>
    \/ \E point \in Points : \E written \in 0..(MaxLen + 1) :
          /\ point # "body" => written = 0
          /\ Interrupted(point, written, "killed")

\* requests.post and requests.get are called without a timeout: a server
\* that stops answering, at the login, at a GET or in the middle of a body,
\* leaves the process waiting for ever
Stalled ==
    \/ /\ pc = "auth"
       /\ stops < MaxStops
       /\ stops' = stops + 1
       /\ posts' = posts + 1
       /\ pc' = "stalled"
       /\ UNCHANGED <<args, ret, flist, idx, updated, new, error, calls, fs,
                      dirs, rlm, clock, gets, mdts, summary, run, start,
                      faults>>
    \/ Interrupted("get", 0, "stalled")
    \/ \E written \in 0..(MaxLen + 1) : Interrupted("body", written, "stalled")

\* print_summary(updated, new, error, data_log), and main returns
PrintSummary ==
    /\ pc = "loop"
    /\ idx = Len(flist)
    /\ summary' = <<updated, new, error>>
    /\ pc' = "done"
    /\ UNCHANGED <<args, ret, flist, idx, updated, new, error, calls, fs,
                   dirs, rlm, clock, posts, gets, mdts, run, start, faults, stops>>

\* the archive publishes the current target again after the local copy was
\* written.  A file published again is noticed only when its target is next
\* fetched, so the event is placed right before that iteration.
Republish ==
    /\ InLoop
    /\ Current \in DOMAIN fs
    /\ check_mdt(RemoteLM(rlm, Current), fs[Current].mtime)
    /\ faults < MaxFaults
    /\ faults' = faults + 1
    /\ clock' = clock + 1
    /\ rlm' = [p \in DOMAIN rlm \cup {Current} |->
                  IF p = Current THEN clock + 1 ELSE rlm[p]]
    /\ UNCHANGED <<pc, args, ret, flist, idx, updated, new, error, calls, fs,
                   dirs, posts, gets, mdts, summary, run, start, stops>>

\* the operator runs the script again with the same command line
Rerun ==
    /\ pc \in {"done", "exited", "aborted", "killed"}
    /\ run = "first"
    /\ run' = "repeat"
    /\ clock' = clock + 1
    /\ start' = [fs |-> fs, dirs |-> dirs, rlm |-> rlm]
    /\ pc' = "auth"
    /\ ret' = 0
    /\ flist' = <<>>
    /\ idx' = 0
    /\ updated' = <<>>
    /\ new' = <<>>
    /\ error' = <<>>
    /\ calls' = <<>>
    /\ posts' = 0
    /\ gets' = 0
    /\ mdts' = 0
    /\ summary' = <<>>
    /\ UNCHANGED <<args, fs, dirs, rlm, faults, stops>>

\* the Content-length a response declares, and the bytes its stream can
\* leave on disk: any number for a file of MaxLen bytes, none for an empty one
Declared == {0, MaxLen}
Streamed(filesize) == IF filesize = 0 THEN {0} ELSE 0..(MaxLen + 1)

SomeIterate ==
    \E filesize \in Declared : \E streamed \in Streamed(filesize) :
        Iterate(filesize, streamed)

Next ==
    \/ Authenticate
    \/ BuildPlan
    \/ SomeIterate
    \/ GetRaises
    \/ StreamRaises
    \/ Killed
    \/ Stalled
    \/ PrintSummary
    \/ Republish
    \/ Rerun

\* a run and its repetition, from an empty data_dir
Spec == Init /\ [][Next]_vars

\* one run, with month lists of one token, of a token repeated and of two
\* tokens, from an empty data_dir or from the mirror an earlier run left
InitOnce ==
    /\ Started
    /\ \E s \in OnceStarts :
        /\ args = [year |-> "2022", month |-> s.month, monthGiven |-> TRUE]
        /\ fs = MirrorOf("2022", s.mirrored).fs
        /\ dirs = MirrorOf("2022", s.mirrored).dirs
    /\ rlm = NoTimes
    /\ clock = 1
    /\ run = "first"
    /\ start = [fs |-> fs, dirs |-> dirs, rlm |-> NoTimes]
    /\ faults = 0
    /\ stops = 0

NextOnce ==
    \/ Authenticate
    \/ BuildPlan
    \/ SomeIterate
    \/ GetRaises
    \/ StreamRaises
    \/ Killed
    \/ Stalled
    \/ PrintSummary
    \/ Republish

SpecOnce == InitOnce /\ [][NextOnce]_vars

\* get_filelist alone, over more years and months: main after the login
\* was answered 200
InitPlan ==
    /\ pc = "plan"
    /\ ret = 200
    /\ posts = 1
    /\ flist = <<>>
    /\ idx = 0
    /\ updated = <<>>
    /\ new = <<>>
    /\ error = <<>>
    /\ calls = <<>>
    /\ gets = 0
    /\ mdts = 0
    /\ summary = <<>>
    /\ args \in PlanArgs
    /\ fs = NoFiles
    /\ dirs = {}
    /\ rlm = NoTimes
    /\ clock = 1
    /\ run = "first"
    /\ start = [fs |-> NoFiles, dirs |-> {}, rlm |-> NoTimes]
    /\ faults = 0
    /\ stops = 0

NextPlan == BuildPlan

SpecPlan == InitPlan /\ [][NextPlan]_vars

TypeOK ==
    /\ pc \in {"auth", "plan", "loop", "done", "exited", "aborted", "killed",
              "stalled"}
    /\ idx \in 0..Len(flist)
    /\ Len(calls) \in {idx, idx + 1}
    /\ faults \in 0..MaxFaults
    /\ stops \in 0..MaxStops
    /\ DOMAIN rlm \subseteq DOMAIN fs

---------------------------------------------------------------------------
(* Vocabulary of the properties                                            *)

\* a step in which a call of download_file ran to its end
Called == Len(calls') = Len(calls) + 1
LastCall == calls[Len(calls)]

\* the loop of main has ended
LoopEnded == pc = "done" \/ (pc = "loop" /\ idx = Len(flist))

\* no month token occurs twice in the list
NoRepeat(mns) == \A i, j \in 1..Len(mns) : mns[i] = mns[j] => i = j

\* seq is extended at its end, or left alone
Extends(seq, before) ==
    /\ Len(seq) >= Len(before)
    /\ SubSeq(seq, 1, Len(before)) = before

\* the remote file was newer than the copy a run found when it started
NewerThanStart(fpath) ==
    ~check_mdt(RemoteLM(rlm, fpath), start.fs[fpath].mtime)

---------------------------------------------------------------------------
(* C1: completion check of download_file                                   *)

\* C1 (as claimed): every call of download_file that reaches the end of the
\* stream, whatever length L >= 0 was declared and whatever size S is on
\* disk, ends 'complete' exactly when S = L and 'incomplete' exactly when
\* S # L; nothing else (no exception) comes out of the completion check.
C1_CompletionCheck ==
    \A i \in 1..Len(calls) :
        calls[i].opened =>
            /\ calls[i].status = "complete" <=> calls[i].size = calls[i].filesize
            /\ calls[i].status = "incomplete" <=> calls[i].size # calls[i].filesize

---------------------------------------------------------------------------
(* C3: a missing file is never fetched in update mode                      *)

\* C3: when the local file of the current target does not exist, the call of
\* download_file is made with update = False: check_mdt is not called, the
\* result is not 'skip', and the body the stream delivers is written to the
\* local path (the file exists afterwards, with the streamed size).
C3_MissingIsFullFetch ==
    [][(Called /\ Current \notin DOMAIN fs) =>
          /\ ~LastCall'.update
          /\ mdts' = mdts
          /\ LastCall'.status # "skip"
          /\ LastCall'.opened
          /\ Current \in DOMAIN fs'
          /\ fs'[Current] = [size |-> LastCall'.size, mtime |-> clock]]_vars

\* a repeated run, over a mirror that holds some files, fetches a missing one
C3_Witness ==
    /\ run = "repeat"
    /\ DOMAIN start.fs # {}
    /\ calls # <<>>
    /\ ~LastCall.existed
    /\ LastCall.status = "complete"

---------------------------------------------------------------------------
(* C4: 'skip' leaves the local file alone                                  *)

\* C4: when download_file returns 'skip', the local file is as it was before
\* the call, size and modification time (no file under data_dir changes):
\* it was not opened for writing.
C4_SkipLeavesFile ==
    [][(Called /\ LastCall'.status = "skip") =>
          /\ fs' = fs
          /\ ~LastCall'.opened
          /\ LastCall'.size = fs[Current].size]_vars

\* a target was resolved to 'skip' over a file an earlier run wrote
C4_Witness ==
    /\ calls # <<>>
    /\ LastCall.status = "skip"
    /\ LastCall.fpath \in DOMAIN start.fs

---------------------------------------------------------------------------
(* C7: a repeated run over an unchanged archive skips everything           *)

\* C7: in a run that finds every planned file present and no remote file
\* newer than its local copy (none is published again during the run),
\* every call of download_file returns 'skip', updated, new and error stay
\* empty, no local file is written, and the summary lists nothing.
C7_Pre ==
    /\ Range(flist) \subseteq DOMAIN start.fs
    /\ rlm = start.rlm
    /\ \A p \in Range(flist) : ~NewerThanStart(p)

C7_RepeatSkipsAll ==
    C7_Pre =>
        /\ \A i \in 1..Len(calls) : calls[i].status = "skip"
        /\ updated = <<>> /\ new = <<>> /\ error = <<>>
        /\ fs = start.fs
        /\ pc = "done" => /\ Len(calls) = Len(flist)
                          /\ summary = <<<<>>, <<>>, <<>>>>

\* the repeated run of -m 02 has printed its summary after 28 skips
C7_Witness ==
    /\ run = "repeat"
    /\ pc = "done"
    /\ C7_Pre
    /\ Len(calls) = 28

---------------------------------------------------------------------------
(* C8: no work without a login                                             *)

\* C8: a login answered with a status other than 200 ends the run inside
\* authenticate: one POST and no more, no plan, no directory made, no GET,
\* no file written, no summary.  And a run that has issued a file GET has
\* issued exactly one login POST, answered 200.
C8_LoginGuards ==
    /\ (ret # 0 /\ ret # 200) =>
          /\ pc = "exited"
          /\ posts = 1
          /\ flist = <<>>
          /\ dirs = start.dirs
          /\ gets = 0
          /\ calls = <<>>
          /\ fs = start.fs
          /\ summary = <<>>
    /\ gets > 0 => (posts = 1 /\ ret = 200)
    /\ (pc \in {"plan", "loop", "done"} \/ flist # <<>> \/ summary # <<>>) => ret = 200

\* the repeated run is refused (403) over the mirror the first run left
C8_Witness ==
    /\ run = "repeat"
    /\ pc = "exited"
    /\ ret = 403
    /\ DOMAIN fs # {}

---------------------------------------------------------------------------
(* C10: truncated files and the next run                                   *)

\* the file a run found at fpath when it started is truncated: fewer bytes
\* than the remote file has
TruncatedAtStart(fpath) ==
    fpath \in DOMAIN start.fs /\ start.fs[fpath].size < MaxLen

\* C10 (as claimed): a truncated file left by the previous run, the remote
\* file unchanged, is not resolved to 'skip' by the next run but fetched
\* again.
C10_TruncatedCaught ==
    \A i \in 1..Len(calls) :
        (TruncatedAtStart(calls[i].fpath) /\ ~NewerThanStart(calls[i].fpath)) =>
            (calls[i].status # "skip" /\ calls[i].opened)

\* C10 (amended): the next run fetches a truncated file again only if the
\* remote file is then newer than the local copy; with the remote file
\* unchanged the target is resolved to 'skip', the file stays as it was and
\* the target is in none of updated, new and error.
C10_TruncatedPersists ==
    \A i \in 1..Len(calls) :
        LET c == calls[i] IN
        TruncatedAtStart(c.fpath) =>
            IF NewerThanStart(c.fpath)
            THEN c.opened /\ c.status # "skip"
            ELSE /\ c.status = "skip"
                 /\ fs[c.fpath] = start.fs[c.fpath]
                 /\ c.fpath \notin Range(updated) \cup Range(new) \cup Range(error)

\* the repeated run has ended, and a file the first run left truncated (its
\* transfer was incomplete) is still truncated
C10_Witness ==
    /\ run = "repeat"
    /\ pc = "done"
    /\ \E i \in 1..Len(calls) :
          /\ TruncatedAtStart(calls[i].fpath)
          /\ calls[i].status = "skip"
          /\ fs[calls[i].fpath].size < MaxLen

---------------------------------------------------------------------------
(* C5: the plan has one target per calendar day                            *)

\* the calendar as the claim states it
TwoDigits == <<"01", "02", "03", "04", "05", "06", "07", "08", "09", "10",
               "11", "12", "13", "14", "15", "16", "17", "18", "19", "20",
               "21", "22", "23", "24", "25", "26", "27", "28", "29", "30",
               "31">>
CalendarMonths == {TwoDigits[m] : m \in 1..12}
MonthNumber(mn) == CHOOSE m \in 1..12 : TwoDigits[m] = mn
\* the years of the command lines, as numbers
YearNumbers == ("1900" :> 1900) @@ ("2000" :> 2000) @@ ("2100" :> 2100)
                   @@ ("2101" :> 2101) @@ (" 2024" :> 2024) @@ ("1_900" :> 1900)
YearNumber(yr) == YearNumbers[yr]
GregorianLeap(y) == (y % 4 = 0 /\ y % 100 # 0) \/ y % 400 = 0
GregorianDays(y, m) ==
    IF m = 2 THEN (IF GregorianLeap(y) THEN 29 ELSE 28)
    ELSE IF m \in {4, 6, 9, 11} THEN 30 ELSE 31

\* the days of the months before the j-th of the list
RECURSIVE DaysBefore(_, _, _)
DaysBefore(y, mns, j) ==
    IF j <= 1 THEN 0
    ELSE DaysBefore(y, mns, j - 1) + GregorianDays(y, MonthNumber(mns[j - 1]))

\* the target of one day, as the file layout names it
TargetOfDay(yr, mn, d) ==
    "v1.0/30min/8km/" \o yr \o "/" \o mn \o "/CMORPH_V1.0_ADJ_8km-30min_"
        \o yr \o mn \o TwoDigits[d] \o "00.nc"

\* C5: for a year that is a number and a month list of months 01..12,
\* get_filelist returns, month after
\* month in list order, one target per calendar day of the month in day
\* order 01..lastday, lastday being 28/29/30/31 by the Gregorian rules; the
\* plan has as many entries as the listed months have days.
C5_OnePerCalendarDay ==
    LET mns == MonthsOf(args)
        y   == YearNumber(args.year)
    IN  (/\ pc \notin {"auth", "plan", "exited"}
         /\ args.year \in DOMAIN YearNumbers
         /\ Range(mns) \subseteq CalendarMonths) =>
            /\ pc = "loop"
            /\ Len(flist) = DaysBefore(y, mns, Len(mns) + 1)
            /\ \A j \in 1..Len(mns) :
                 \A d \in 1..GregorianDays(y, MonthNumber(mns[j])) :
                    flist[DaysBefore(y, mns, j) + d] = TargetOfDay(args.year, mns[j], d)

\* the plan of February and December 2000: 29 + 31 targets
C5_Witness ==
    /\ pc = "loop"
    /\ args.year = "2000"
    /\ args.month = <<"02", "12">>
    /\ Len(flist) = 60
    /\ flist[29] = "v1.0/30min/8km/2000/02/CMORPH_V1.0_ADJ_8km-30min_2000022900.nc"

---------------------------------------------------------------------------
(* C2: updated, new and error                                              *)

Disjoint3 ==
    /\ Range(updated) \cap Range(new) = {}
    /\ Range(updated) \cap Range(error) = {}
    /\ Range(new) \cap Range(error) = {}

\* the classifications the planned target p has received
ClassificationsOf(p) == {i \in 1..Len(calls) : calls[i].fpath = p}

\* at the end of the loop every planned target has one classification, and
\* is filed accordingly
Classified ==
    LoopEnded =>
        \A p \in Range(flist) :
            /\ Cardinality(ClassificationsOf(p)) = 1
            /\ \A i \in ClassificationsOf(p) :
                 /\ calls[i].status \in {"skip", "complete", "incomplete"}
                 /\ calls[i].status = "complete" =>
                      /\ (p \in Range(updated)) # (p \in Range(new))
                      /\ p \notin Range(error)
                 /\ calls[i].status = "incomplete" =>
                      /\ p \in Range(error)
                      /\ p \notin Range(updated) \cup Range(new)
                 /\ calls[i].status = "skip" =>
                      p \notin Range(updated) \cup Range(new) \cup Range(error)

AppendOnly ==
    /\ Extends(updated', updated)
    /\ Extends(new', new)
    /\ Extends(error', error)

\* C2 (as claimed): in every state of a run, whatever the month list
\* (repeated tokens included), updated, new and error are pairwise disjoint
\* and only grow at their end; when the loop ends every planned target has
\* exactly one classification, a complete one is in exactly one of updated
\* and new, an incomplete one in error only, a skipped one in none.
C2_Buckets ==
    /\ [](Disjoint3 /\ Classified)
    /\ [][AppendOnly]_vars

\* C2 (amended): the same, for month lists in which no token is repeated.
C2_BucketsNoRepeat ==
    /\ [](NoRepeat(MonthsOf(args)) => (Disjoint3 /\ Classified))
    /\ [][NoRepeat(MonthsOf(args)) => AppendOnly]_vars

\* the run of -m 02 04 over the mirror of February has ended with targets
\* under updated and under new, and the others skipped
C2_Witness ==
    /\ LoopEnded
    /\ NoRepeat(MonthsOf(args))
    /\ Len(flist) = 58
    /\ updated # <<>>
    /\ new # <<>>

---------------------------------------------------------------------------
(* C6: a first run files everything under new                              *)

\* no planned file was there when the run started, and every transfer left
\* as many bytes on disk as were declared
C6_Pre ==
    /\ Range(flist) \cap DOMAIN start.fs = {}
    /\ \A i \in 1..Len(calls) :
          calls[i].opened => calls[i].size = calls[i].filesize

C6_AllNew ==
    /\ Range(summary[2]) = Range(flist)
    /\ summary[1] = <<>>
    /\ summary[3] = <<>>
    /\ (args.year = "2022" /\ MonthsOf(args) = <<"02">>) => Len(summary[2]) = 28

\* C6 (as claimed): whatever the year and the month list, a run that starts
\* with none of the planned files and whose transfers all match the declared
\* length gives print_summary every planned target under new, and nothing
\* under updated and error (28 targets under new for 2022, months ["02"]).
C6_FirstRunAllNew ==
    (pc = "done" /\ C6_Pre) => C6_AllNew

\* C6 (amended): the same, for month lists in which no token is repeated.
C6_FirstRunAllNewNoRepeat ==
    (pc = "done" /\ C6_Pre /\ NoRepeat(MonthsOf(args))) => C6_AllNew

\* the summary of the run of -m 02 for 2022 over an empty data_dir
C6_Witness ==
    /\ pc = "done"
    /\ C6_Pre
    /\ args.month = <<"02">>
    /\ Len(summary[2]) = 28
    /\ summary[2] = flist

---------------------------------------------------------------------------
(* C9: an incomplete transfer is recorded and the run goes on              *)

\* the loop of main is sequential: it takes its next step whenever it has
\* one (a request that never returns is the step Stalled)
ProgramStep == SomeIterate \/ PrintSummary
FairOnce == SpecOnce /\ WF_vars(ProgramStep)

\* the calls follow the plan, one target after the other
InPlanOrder ==
    /\ Len(calls) \in {idx, idx + 1}
    /\ \A i \in 1..Len(calls) : i <= Len(flist) /\ calls[i].fpath = flist[i]
    /\ \A i \in 1..idx : calls[i].status \in {"skip", "complete", "incomplete"}

\* a target whose transfer was incomplete is not fetched again in the run
NotFetchedAgain ==
    \A i, j \in 1..Len(calls) :
        (i < j /\ calls[i].status = "incomplete") => calls[j].fpath # calls[i].fpath

\* the step that ends a call 'incomplete' files the target under error and
\* leaves main in its loop, at the next target
IncompleteGoesOn ==
    (Called /\ LastCall'.status = "incomplete") =>
        /\ error' = Append(error, Current)
        /\ updated' = updated /\ new' = new
        /\ pc' = "loop"
        /\ idx' = idx + 1

\* the targets under error are targets of finished iterations that ended
\* 'incomplete'
ErrorsAreFinished ==
    \A i \in 1..Len(error) :
        \E j \in 1..idx : calls[j].fpath = error[i] /\ calls[j].status = "incomplete"

\* print_summary was given the lists after every target of the plan was
\* called
Summarised ==
    /\ pc = "done"
    /\ Len(calls) = Len(flist)
    /\ summary = <<updated, new, error>>

\* the run ended without a summary after the iterations finished so far:
\* an exception of requests.get, check_mdt, open or iter_content, a request
\* that never returns or a kill (stops), or check_file_status raising in the
\* call that was in progress (the call is in calls, its iteration not
\* finished)
FetchFailed ==
    /\ pc \in {"aborted", "killed", "stalled"}
    /\ stops > 0 \/ Len(calls) = idx + 1

\* C9 (as claimed): a target whose transfer ends 'incomplete' is appended
\* to error and the run continues: the targets are processed in plan order,
\* one at a time, the incomplete target is not fetched again in the run, no
\* exception ends the run after it, and the run reaches print_summary.
C9_ErrorAndGoOn ==
    /\ [](InPlanOrder /\ NotFetchedAgain /\ (error # <<>> => pc # "aborted"))
    /\ [][IncompleteGoesOn]_vars
    /\ (error # <<>>) ~> (pc = "done")

\* C9 (amended): a target whose transfer ends 'incomplete' is appended to
\* error and main goes on with the next target: the targets are processed
\* in plan order, one at a time; the incomplete target is not fetched again
\* in the run unless the month list repeats its month; the incomplete
\* transfer itself never ends the run: a run with a target under error ends
\* without a summary only when the fetch of a later target raises or never
\* returns, or the process is killed, and otherwise it reaches
\* print_summary with every target of the plan called.
C9_ErrorAndGoOnAmended ==
    /\ [](InPlanOrder /\ ErrorsAreFinished
            /\ (NoRepeat(MonthsOf(args)) => NotFetchedAgain)
            /\ (error # <<>> /\ pc \notin {"loop", "done"} => FetchFailed))
    /\ [][IncompleteGoesOn]_vars
    /\ (error # <<>>) ~> (Summarised \/ FetchFailed)

\* the run of -m 02 04 over the mirror of February has printed its summary
\* with a target of April under error and the later ones under new
C9_Witness ==
    /\ pc = "done"
    /\ NoRepeat(MonthsOf(args))
    /\ Len(flist) = 58
    /\ \E i \in 29..57 :
          /\ calls[i].status = "incomplete"
          /\ error = <<flist[i]>>
          /\ \A j \in (i + 1)..58 : calls[j].status = "complete" /\ flist[j] \in Range(new)

====
